---- MODULE Spec2Model ----
(***************************************************************************)
(* The doorbell detector of remote-doorbell-intercom:                      *)
(*   src/lib/audio.py               Stream (File, Microphone), Pitch       *)
(*   src/lib/utils.py               AssertContextFunc                      *)
(*   src/lib/door_bell_detectors.py AiPhoneGT1A                            *)
(*                                                                         *)
(* One detector, its audio stream and its Pitch object.  The operations   *)
(* are the methods a caller can invoke: Stream.open/close/read,            *)
(* Pitch.open/close, AiPhoneGT1A.is_ringing and the two phase methods      *)
(* _detect_single_ring / _detect_single_gap.  The detector methods are     *)
(* modelled step by step (pc); a Python exception is a value carried in    *)
(* exc while it propagates and stored in result when the call ends.        *)
(*                                                                         *)
(* Units: a confidence c is the integer 200*c (0.45 -> 90, 0.60 -> 120),   *)
(* so that (min + max) / 2 is exact; seconds are tenths of a second        *)
(* (1.8 -> 18); the clock now counts tenths of a second.                   *)
(***************************************************************************)
EXTENDS Integers, Sequences, FiniteSets, TLC

VARIABLES
  kind,             \* class of audio_stream (main.py:27-31): "File" or "Microphone"
  file,             \* File: the confidences of the blocks of the audio file
  cfg,              \* the keyword arguments of AiPhoneGT1A.__init__ (50-103)
  stream,           \* Stream._stream (audio.py:31): closed, or an open source
                    \* and the number of blocks it has delivered
  data,             \* Stream._data (audio.py:32)
  num_blocks_read,  \* Stream._num_blocks_read (audio.py:33)
  last_read_size,   \* File._last_read_size (audio.py:164): "None", or whether
                    \* the last read was a "full" block or a "short" one
  aubio_pitch,      \* Pitch._aubio_pitch (audio.py:203): "None" or "pitch"
  confidence,       \* the confidence the aubio pitch object holds, the one of
                    \* the block it processed last; None without an object
  cached_confidence,\* Pitch._cached_confidence (audio.py:204): a dict from
                    \* block counts to confidences
  now,              \* time.time()
  pc,               \* position inside the running detector method, or "idle"
  call,             \* the running (or last finished) call and what it started from
  phase,            \* locals of the running _detect_single_ring/_gap
  exc,              \* the exception that is propagating, or "none"
  result            \* outcome of the last finished call; "pending" while one runs

vars == <<kind, file, cfg, stream, data, num_blocks_read, last_read_size,
          aubio_pitch, confidence, cached_confidence, now, pc, call, phase,
          exc, result>>

----------------------------------------------------------------------------
(* Bounds of the model *)

MaxLen == 3      \* longest enumerated audio file, in blocks
MaxReads == 3    \* Stream.read calls a caller issues itself
MaxTime == 2     \* clock ticks after the start

(* Python's None where the other values are numbers *)
None == 0 - 1

(* the two confidence levels of the files: 0.10 (out of band), 0.60 (in band) *)
Levels == {20, 120}

(* n copies of v *)
Repeat(v, n) == [i \in 1..n |-> v]

RECURSIVE SeqsUpTo(_)
SeqsUpTo(n) ==
  IF n = 0 THEN {<< >>}
  ELSE LET S == SeqsUpTo(n - 1) IN
       S \cup {Append(s, l) : s \in {t \in S : Len(t) = n - 1}, l \in Levels}

(* 155 blocks at 0.60, 155 at 0.10, 155 at 0.60 *)
EndToEndFile == Repeat(120, 155) \o Repeat(20, 155) \o Repeat(120, 155)

(* a ring, a gap that does not come, then ring, gap, ring *)
NonRewindFile == <<120, 120, 120, 20, 120>>

Files == (SeqsUpTo(MaxLen) \ {<< >>}) \cup {EndToEndFile, NonRewindFile}

----------------------------------------------------------------------------
(* AiPhoneGT1A.__init__: the parameters, stored unchanged and unchecked *)

DefaultConfig ==
  [min_ringing_confidence |-> 90, max_ringing_confidence |-> 150,
   pitch_confidences_per_second |-> 86,
   ringing_seconds |-> 18, gap_seconds |-> 18,
   max_wait_gap_multiple |-> 2, max_wait_subsequent_ring_multiple |-> 2]

(* one confidence per second, windows of one second: a window of one value;
   multiples of 0: a deadline that is reached at once *)
UnitConfig ==
  [DefaultConfig EXCEPT !.pitch_confidences_per_second = 1,
     !.ringing_seconds = 10, !.gap_seconds = 10,
     !.max_wait_gap_multiple = 0, !.max_wait_subsequent_ring_multiple = 0]

(* ten confidences per second, windows of one second, multiples of 2 *)
TenthsConfig ==
  [DefaultConfig EXCEPT !.pitch_confidences_per_second = 10,
     !.ringing_seconds = 10, !.gap_seconds = 10]

(* one confidence per second and windows of 0.4 seconds: int(0.4) = 0 *)
ZeroWindowConfig ==
  [DefaultConfig EXCEPT !.pitch_confidences_per_second = 1,
     !.ringing_seconds = 4, !.gap_seconds = 4]

(* the two ends of the band exchanged *)
InvertedBandConfig ==
  [UnitConfig EXCEPT !.min_ringing_confidence = 150,
     !.max_ringing_confidence = 90]

Configs == {DefaultConfig, UnitConfig, TenthsConfig, ZeroWindowConfig,
            InvertedBandConfig}

----------------------------------------------------------------------------
(* Stream, File, Microphone *)

Closed == [open |-> FALSE, pos |-> 0]

(* File._is_depleted / Microphone._is_depleted, read through the property
   Stream.is_depleted: a bool *)
is_depleted ==
  IF kind = "File" THEN last_read_size # "None" /\ last_read_size = "short"
  ELSE FALSE

(* File._read: the next block of the source and whether it was a full one.
   The last block of a file is short; a read past the end is empty. *)
FileBlock(p) == IF p <= Len(file) THEN file[p] ELSE 0
FileReadSize(p) == IF p < Len(file) THEN "full" ELSE "short"

(* Python: calling a value that is not callable raises TypeError *)
PyCall(v) == IF v \in BOOLEAN THEN "TypeError" ELSE "ok"

(* Stream.iter_read, resumed once: it calls the value of the property
   is_depleted (line 107), and a bool is not callable *)
iter_read ==
  IF PyCall(is_depleted) = "TypeError" THEN "TypeError"
  ELSE IF is_depleted THEN "StopIteration" ELSE "yield"

(* the parameters of Stream.__exit__ and Pitch.__exit__, and the arguments the
   with statement calls them with *)
StreamExitParams == <<"self">>
PitchExitParams == <<"self">>
WithExitArgs == <<"self", "exc_type", "exc_value", "traceback">>

----------------------------------------------------------------------------
(* the window and the band of a phase *)

(* round(self.pitch_confidences_per_second * seconds): to the nearest *)
num_confidences_rounded(seconds) ==
  (cfg.pitch_confidences_per_second * seconds + 5) \div 10

(* int(self.pitch_confidences_per_second * seconds), seconds in tenths *)
num_confidences_to_average(seconds) ==
  (cfg.pitch_confidences_per_second * seconds) \div 10

average_ring_confidence ==
  (cfg.min_ringing_confidence + cfg.max_ringing_confidence) \div 2

(* deque(maxlen=n).append: with maxlen 0 nothing is kept *)
dq_append(dq, n, c) ==
  IF n = 0 THEN << >>
  ELSE IF Len(dq) < n THEN Append(dq, c) ELSE Append(Tail(dq), c)

RECURSIVE SumRange(_, _, _)
SumRange(dq, lo, hi) ==
  IF lo > hi THEN 0
  ELSE IF lo = hi THEN dq[lo]
  ELSE LET mid == (lo + hi) \div 2
       IN SumRange(dq, lo, mid) + SumRange(dq, mid + 1, hi)

sum(dq) == SumRange(dq, 1, Len(dq))

(* min <= sum(dq) / n <= max, for n > 0 *)
in_band(dq, n) ==
  /\ cfg.min_ringing_confidence * n <= sum(dq)
  /\ sum(dq) <= cfg.max_ringing_confidence * n

(* what the two phase methods differ in: the seconds of the window and of
   the deadline, the value the window is filled with, the window size and
   the condition on the mean that ends the loop with True *)
Seconds(fn) ==
  IF fn = "_detect_single_ring" THEN cfg.ringing_seconds ELSE cfg.gap_seconds

Seed(fn) == IF fn = "_detect_single_ring" THEN 0 ELSE average_ring_confidence

Window(fn) == num_confidences_to_average(Seconds(fn))

Matches(fn, dq, n) ==
  IF fn = "_detect_single_ring" THEN in_band(dq, n) ELSE ~in_band(dq, n)

(* the locals of a phase method; outcome is the line it logs when it ends:
   "matched" (RING RING / GAP GAP), "timed out" or "stream ended" *)
NoPhase == [fn |-> "none", max_wait_seconds_multiple |-> None,
            max_wait_time |-> None, num |-> 0, dq |-> << >>,
            outcome |-> "none"]

(* a call, and the state of the stream and the pitch when it was made; value
   is the number a call returned, queries the times it asked the analyzer
   for its confidence *)
NoCall == [fn |-> "none", multiple |-> None, blocks |-> 0, pos |-> 0,
           depleted |-> FALSE, stream_open |-> FALSE, pitch_open |-> FALSE,
           value |-> None, queries |-> 0]

NewCall(fn, m) ==
  [fn |-> fn, multiple |-> m, blocks |-> num_blocks_read, pos |-> stream.pos,
   depleted |-> is_depleted, stream_open |-> stream.open,
   pitch_open |-> aubio_pitch # "None", value |-> None, queries |-> 0]

----------------------------------------------------------------------------
Init ==
  /\ kind \in {"File", "Microphone"}
  /\ file \in IF kind = "File" THEN Files ELSE {<< >>}
  /\ cfg \in Configs
  /\ stream = Closed
  /\ data = None
  /\ num_blocks_read = 0
  /\ last_read_size = "None"
  /\ aubio_pitch = "None"
  /\ confidence = None
  /\ cached_confidence = << >>
  /\ now = 1
  /\ pc = "idle"
  /\ call = NoCall
  /\ phase = NoPhase
  /\ exc = "none"
  /\ result = "none"

(* the clock moves on at any moment *)
Tick ==
  /\ now < 1 + MaxTime
  /\ now' = now + 1
  /\ UNCHANGED <<kind, file, cfg, stream, data, num_blocks_read,
                 last_read_size, aubio_pitch, confidence, cached_confidence,
                 pc, call, phase, exc, result>>

----------------------------------------------------------------------------
(* Operations of Stream and Pitch, called from outside the detector *)

(* the blocks the next _read can return *)
NextBlocks == IF kind = "File" THEN {FileBlock(stream.pos + 1)} ELSE Levels

(* Stream.read on an open stream that returns block b *)
read(b) ==
  /\ data' = b
  /\ num_blocks_read' = num_blocks_read + 1
  /\ stream' = [stream EXCEPT !.pos = @ + 1]
  /\ last_read_size' =
       IF kind = "File" THEN FileReadSize(stream.pos + 1) ELSE last_read_size

(* Stream.open without the assertion of AssertContextFunc: an open stream is
   opened again *)
StreamOpenUnchecked ==
  /\ pc = "idle"
  /\ call' = NewCall("Stream.open", None)
  /\ result' = "None"
  /\ stream' = [open |-> TRUE, pos |-> 0]
  /\ UNCHANGED <<kind, file, cfg, data, num_blocks_read, last_read_size,
                 aubio_pitch, confidence, cached_confidence, now, pc,
                 phase, exc>>

(* Stream.open under AssertContextFunc(does_set=True): refused when _stream
   is set; _open makes a new source, which starts at the first block *)
StreamOpen ==
  /\ pc = "idle"
  /\ call' = NewCall("Stream.open", None)
  /\ IF stream.open
       THEN result' = "AssertionError" /\ UNCHANGED stream
       ELSE result' = "None" /\ stream' = [open |-> TRUE, pos |-> 0]
  /\ UNCHANGED <<kind, file, cfg, data, num_blocks_read, last_read_size,
                 aubio_pitch, confidence, cached_confidence, now, pc,
                 phase, exc>>

(* Stream.close that leaves the block where it is and starts the count of
   blocks again *)
StreamCloseForgetful ==
  /\ pc = "idle"
  /\ call' = NewCall("Stream.close", None)
  /\ IF ~stream.open
       THEN result' = "AssertionError" /\ UNCHANGED <<stream, num_blocks_read>>
       ELSE result' = "None" /\ stream' = Closed /\ num_blocks_read' = 0
  /\ UNCHANGED <<kind, file, cfg, data, last_read_size,
                 aubio_pitch, confidence, cached_confidence, now, pc,
                 phase, exc>>

(* Stream.close under AssertContextFunc(sets_to_none=True) *)
StreamClose ==
  /\ pc = "idle"
  /\ call' = NewCall("Stream.close", None)
  /\ IF ~stream.open
       THEN result' = "AssertionError" /\ UNCHANGED <<stream, data>>
       ELSE result' = "None" /\ stream' = Closed /\ data' = None
  /\ UNCHANGED <<kind, file, cfg, num_blocks_read, last_read_size,
                 aubio_pitch, confidence, cached_confidence, now, pc,
                 phase, exc>>

(* Stream.read: on a closed stream _read fails on the None in _stream *)
StreamRead ==
  /\ pc = "idle"
  /\ num_blocks_read < MaxReads
  /\ call' = NewCall("Stream.read", None)
  /\ IF ~stream.open
       THEN /\ result' = IF kind = "File" THEN "TypeError" ELSE "AttributeError"
            /\ UNCHANGED <<stream, data, num_blocks_read, last_read_size>>
       ELSE /\ result' = "block"
            /\ \E b \in NextBlocks : read(b)
  /\ UNCHANGED <<kind, file, cfg, aubio_pitch, confidence, cached_confidence, now, pc,
                 phase, exc>>

(* Pitch.open under AssertContextFunc(does_set=True) *)
PitchOpen ==
  /\ pc = "idle"
  /\ call' = NewCall("Pitch.open", None)
  /\ IF aubio_pitch # "None"
       THEN result' = "AssertionError" /\ UNCHANGED <<aubio_pitch, confidence>>
       ELSE result' = "None" /\ aubio_pitch' = "pitch" /\ confidence' = 0
  /\ UNCHANGED <<kind, file, cfg, stream, data, num_blocks_read,
                 last_read_size, cached_confidence, now, pc, phase, exc>>

(* Pitch.close under AssertContextFunc(sets_to_none=True) *)
PitchClose ==
  /\ pc = "idle"
  /\ call' = NewCall("Pitch.close", None)
  /\ IF aubio_pitch = "None"
       THEN result' = "AssertionError" /\ UNCHANGED <<aubio_pitch, confidence>>
       ELSE result' = "None" /\ aubio_pitch' = "None" /\ confidence' = None
  /\ UNCHANGED <<kind, file, cfg, stream, data, num_blocks_read,
                 last_read_size, cached_confidence, now, pc, phase, exc>>

(* Pitch.process_data: the analyzer is called with the block of the stream
   and from then on holds the confidence of that block; without an analyzer
   the call of None raises TypeError, without a block the analyzer refuses
   its argument *)
PitchProcessData ==
  /\ pc = "idle"
  /\ call' = NewCall("Pitch.process_data", None)
  /\ IF aubio_pitch = "None"
       THEN result' = "TypeError" /\ UNCHANGED confidence
       ELSE IF data = None
         THEN result' \in {"TypeError", "ValueError"} /\ UNCHANGED confidence
         ELSE result' = "pitch" /\ confidence' = data
  /\ UNCHANGED <<kind, file, cfg, stream, data, num_blocks_read,
                 last_read_size, aubio_pitch, cached_confidence, now, pc,
                 phase, exc>>

(* Pitch.fetch_confidence with a dict that keeps the entries it has *)
PitchFetchConfidenceMerged ==
  /\ pc = "idle"
  /\ IF num_blocks_read \in DOMAIN cached_confidence
       THEN /\ call' = [NewCall("Pitch.fetch_confidence", None) EXCEPT
                          !.value = cached_confidence[num_blocks_read]]
            /\ result' = "confidence"
            /\ UNCHANGED cached_confidence
       ELSE IF aubio_pitch = "None"
         THEN /\ call' = NewCall("Pitch.fetch_confidence", None)
              /\ result' = "AttributeError"
              /\ UNCHANGED cached_confidence
         ELSE /\ call' = [NewCall("Pitch.fetch_confidence", None) EXCEPT
                            !.value = confidence, !.queries = 1]
              /\ result' = "confidence"
              /\ cached_confidence' =
                   (num_blocks_read :> confidence) @@ cached_confidence
  /\ UNCHANGED <<kind, file, cfg, stream, data, num_blocks_read,
                 last_read_size, aubio_pitch, confidence, now, pc, phase, exc>>

(* Pitch.fetch_confidence: the dict is asked for the entry of
   num_blocks_read; without one the analyzer is asked (AttributeError on the
   None of a closed Pitch) and the dict is replaced by one with this entry
   alone *)
PitchFetchConfidence ==
  /\ pc = "idle"
  /\ IF num_blocks_read \in DOMAIN cached_confidence
       THEN /\ call' = [NewCall("Pitch.fetch_confidence", None) EXCEPT
                          !.value = cached_confidence[num_blocks_read]]
            /\ result' = "confidence"
            /\ UNCHANGED cached_confidence
       ELSE IF aubio_pitch = "None"
         THEN /\ call' = NewCall("Pitch.fetch_confidence", None)
              /\ result' = "AttributeError"
              /\ UNCHANGED cached_confidence
         ELSE /\ call' = [NewCall("Pitch.fetch_confidence", None) EXCEPT
                            !.value = confidence, !.queries = 1]
              /\ result' = "confidence"
              /\ cached_confidence' = (num_blocks_read :> confidence)
  /\ UNCHANGED <<kind, file, cfg, stream, data, num_blocks_read,
                 last_read_size, aubio_pitch, confidence, now, pc, phase, exc>>

----------------------------------------------------------------------------
(* AiPhoneGT1A.is_ringing *)

(* the call begins: the first with statement is next *)
is_ringing ==
  /\ pc = "idle"
  /\ call' = NewCall("is_ringing", None)
  /\ pc' = "with_stream"
  /\ result' = "pending"
  /\ exc' = "none"
  /\ phase' = NoPhase
  /\ UNCHANGED <<kind, file, cfg, stream, data, num_blocks_read,
                 last_read_size, aubio_pitch, confidence, cached_confidence,
                 now>>

(* with self.audio_stream: Stream.__enter__ calls open(); when open() raises
   the with statement was not entered and the call ends with the error *)
EnterStream ==
  /\ pc = "with_stream"
  /\ IF stream.open
       THEN /\ pc' = "idle"
            /\ result' = "AssertionError"
            /\ UNCHANGED stream
       ELSE /\ pc' = "with_pitch"
            /\ stream' = [open |-> TRUE, pos |-> 0]
            /\ UNCHANGED result
  /\ UNCHANGED <<kind, file, cfg, data, num_blocks_read, last_read_size,
                 aubio_pitch, confidence, cached_confidence, now, call, phase,
                 exc>>

(* with self.audio_pitch: Pitch.__enter__ calls open(); when open() raises
   the error leaves through the with statement of the stream *)
EnterPitch ==
  /\ pc = "with_pitch"
  /\ IF aubio_pitch # "None"
       THEN /\ pc' = "exit_stream"
            /\ exc' = "AssertionError"
            /\ UNCHANGED <<aubio_pitch, confidence>>
       ELSE /\ pc' = "while"
            /\ aubio_pitch' = "pitch"
            /\ confidence' = 0
            /\ UNCHANGED exc
  /\ UNCHANGED <<kind, file, cfg, stream, data, num_blocks_read,
                 last_read_size, cached_confidence, now, call, phase, result>>

(* while not self.audio_stream.is_depleted: _is_ringing() begins with
   _detect_single_ring() without a multiple; a depleted stream leaves the
   loop and the body of the inner with statement *)
WhileTest ==
  /\ pc = "while"
  /\ IF ~is_depleted
       THEN /\ pc' = "phase"
            /\ phase' = [NoPhase EXCEPT !.fn = "_detect_single_ring"]
       ELSE /\ pc' = "exit_pitch"
            /\ UNCHANGED phase
  /\ UNCHANGED <<kind, file, cfg, stream, data, num_blocks_read,
                 last_read_size, aubio_pitch, confidence, cached_confidence,
                 now, call, exc, result>>

----------------------------------------------------------------------------
(* _detect_single_ring and _detect_single_gap *)

(* a phase method called by itself, with max_wait_seconds_multiple = m *)
CallPhase(fn, m) ==
  /\ pc = "idle"
  /\ call' = NewCall(fn, m)
  /\ pc' = "phase"
  /\ phase' = [NoPhase EXCEPT !.fn = fn, !.max_wait_seconds_multiple = m]
  /\ result' = "pending"
  /\ exc' = "none"
  /\ UNCHANGED <<kind, file, cfg, stream, data, num_blocks_read,
                 last_read_size, aubio_pitch, confidence, cached_confidence,
                 now>>

_detect_single_ring == \E m \in {None, 0, 2} : CallPhase("_detect_single_ring", m)

_detect_single_gap == \E m \in {None, 0, 2} : CallPhase("_detect_single_gap", m)

(* the statements before the for loop with a deadline counted from the
   construction of the detector and one seed, that of the ring, for every
   window *)
PhaseStartShared ==
  /\ pc = "phase"
  /\ LET m == phase.max_wait_seconds_multiple
         n == Window(phase.fn)
     IN phase' = [phase EXCEPT
                    !.max_wait_time =
                       IF m = None THEN None ELSE 1 + Seconds(phase.fn) * m,
                    !.num = n,
                    !.dq = Repeat(Seed("_detect_single_ring"), n)]
  /\ pc' = "for"
  /\ UNCHANGED <<kind, file, cfg, stream, data, num_blocks_read,
                 last_read_size, aubio_pitch, confidence, cached_confidence,
                 now, call, exc, result>>

(* the statements before the for loop: the deadline, the window size and the
   window filled with the seed *)
PhaseStart ==
  /\ pc = "phase"
  /\ LET m == phase.max_wait_seconds_multiple
         n == Window(phase.fn)
     IN phase' = [phase EXCEPT
                    !.max_wait_time =
                       IF m = None THEN None ELSE now + Seconds(phase.fn) * m,
                    !.num = n,
                    !.dq = Repeat(Seed(phase.fn), n)]
  /\ pc' = "for"
  /\ UNCHANGED <<kind, file, cfg, stream, data, num_blocks_read,
                 last_read_size, aubio_pitch, confidence, cached_confidence,
                 now, call, exc, result>>

(* an exception leaves the phase method: inside is_ringing it goes on
   through the with statements, otherwise the call ends with it *)
PhaseRaises(e) ==
  /\ IF call.fn = "is_ringing"
       THEN pc' = "exit_pitch" /\ exc' = e /\ UNCHANGED result
       ELSE pc' = "idle" /\ result' = e /\ UNCHANGED exc
  /\ UNCHANGED phase

(* the phase method returns False: inside is_ringing the and-chain of
   _is_ringing is False and the while loop tests again *)
PhaseReturnsFalse(logged) ==
  /\ IF call.fn = "is_ringing"
       THEN pc' = "while" /\ UNCHANGED <<exc, result>>
       ELSE pc' = "idle" /\ result' = "False" /\ UNCHANGED exc
  /\ phase' = [phase EXCEPT !.outcome = logged]

(* for pitch_confidence in self._iter_confidences(): the for statement asks
   the generator for its next value, which resumes Stream.iter_read.
   iter_read raises at once; were it to end, the else branch of the for
   statement returns False; were it to yield, the block is read and
   processed and self.audio_pitch.confidence, an attribute Pitch does not
   have, raises AttributeError. *)
ForNext ==
  /\ pc = "for"
  /\ IF iter_read = "TypeError"
       THEN /\ PhaseRaises("TypeError")
            /\ UNCHANGED <<stream, data, num_blocks_read, last_read_size,
                           confidence>>
       ELSE IF iter_read = "StopIteration"
         THEN /\ PhaseReturnsFalse("stream ended")
              /\ UNCHANGED <<stream, data, num_blocks_read, last_read_size,
                             confidence>>
         ELSE /\ \E b \in NextBlocks :
                   /\ read(b)
                   /\ confidence' = IF aubio_pitch = "None" THEN confidence
                                    ELSE b
              /\ PhaseRaises(IF aubio_pitch = "None" THEN "TypeError"
                             ELSE "AttributeError")
  /\ UNCHANGED <<kind, file, cfg, aubio_pitch, cached_confidence, now, call>>

----------------------------------------------------------------------------
(* leaving the with statements of is_ringing *)

(* the with statement calls Pitch.__exit__ with the exception triple; a
   method that takes fewer parameters raises TypeError and closes nothing *)
ExitPitch ==
  /\ pc = "exit_pitch"
  /\ IF Len(WithExitArgs) # Len(PitchExitParams)
       THEN exc' = "TypeError" /\ UNCHANGED <<aubio_pitch, confidence>>
       ELSE aubio_pitch' = "None" /\ confidence' = None /\ UNCHANGED exc
  /\ pc' = "exit_stream"
  /\ UNCHANGED <<kind, file, cfg, stream, data, num_blocks_read,
                 last_read_size, cached_confidence, now, call, phase, result>>

(* the same for Stream.__exit__; then the call ends: with the exception, or
   with the return False after the with statements *)
ExitStream ==
  /\ pc = "exit_stream"
  /\ IF Len(WithExitArgs) # Len(StreamExitParams)
       THEN /\ result' = "TypeError"
            /\ UNCHANGED <<stream, data>>
       ELSE /\ result' = IF exc # "none" THEN exc ELSE "False"
            /\ stream' = Closed
            /\ data' = None
  /\ pc' = "idle"
  /\ exc' = "none"
  /\ UNCHANGED <<kind, file, cfg, num_blocks_read, last_read_size,
                 aubio_pitch, confidence, cached_confidence, now, call,
                 phase>>

----------------------------------------------------------------------------
Next ==
  \/ Tick
  \/ StreamOpen
  \/ StreamClose
  \/ StreamRead
  \/ PitchOpen
  \/ PitchClose
  \/ is_ringing
  \/ EnterStream
  \/ EnterPitch
  \/ WhileTest
  \/ _detect_single_ring
  \/ _detect_single_gap
  \/ PhaseStart
  \/ ForNext
  \/ ExitPitch
  \/ ExitStream

Spec == Init /\ [][Next]_vars

(* Stream and Pitch used by themselves: the detector calls neither
   Pitch.fetch_confidence nor, before iter_read has failed, process_data *)
PitchNext ==
  \/ StreamOpen
  \/ StreamClose
  \/ StreamRead
  \/ PitchOpen
  \/ PitchClose
  \/ PitchProcessData
  \/ PitchFetchConfidence

PitchSpec == Init /\ [][PitchNext]_vars

----------------------------------------------------------------------------
(* What the specification says a run over a file returns.                  *)
(*                                                                         *)
(* ExpectedPhase is the phase of section 4.2 run from position p of the    *)
(* file with a deadline that is absent (m = None) or already reached on    *)
(* the first sample (m = 0): it pushes each value into the window, matches *)
(* on the band, times out after a sample that did not match, and ends with *)
(* the stream.  ExpectedCycle and ExpectedRun are the attempt and the      *)
(* outer loop of section 4.3.                                              *)

Finished(fn) == pc = "idle" /\ call.fn = fn /\ result \notin {"none", "pending"}

(* the call found the stream and the pitch as the constructors left them *)
FreshCall ==
  /\ ~call.stream_open /\ ~call.pitch_open
  /\ call.blocks = 0 /\ ~call.depleted

(* a phase method called on an open stream and an open pitch *)
OpenCall == call.stream_open /\ call.pitch_open

ShortFile == kind = "File" /\ Len(file) <= Len(NonRewindFile)

RECURSIVE ExpectedLoop(_, _, _, _)
ExpectedLoop(fn, m, dq, p) ==
  IF p >= Len(file) THEN [outcome |-> "stream ended", pos |-> p]
  ELSE LET n == Window(fn)
           dq2 == dq_append(dq, n, file[p + 1])
       IN IF Matches(fn, dq2, n) THEN [outcome |-> "matched", pos |-> p + 1]
          ELSE IF m = 0 THEN [outcome |-> "timed out", pos |-> p + 1]
          ELSE ExpectedLoop(fn, m, dq2, p + 1)

ExpectedPhase(fn, m, p) == ExpectedLoop(fn, m, Repeat(Seed(fn), Window(fn)), p)

ExpectedCycle(p) ==
  LET p1 == ExpectedPhase("_detect_single_ring", None, p)
      p2 == ExpectedPhase("_detect_single_gap", cfg.max_wait_gap_multiple, p1.pos)
      p3 == ExpectedPhase("_detect_single_ring",
                          cfg.max_wait_subsequent_ring_multiple, p2.pos)
  IN IF p1.outcome # "matched" THEN [ok |-> FALSE, pos |-> p1.pos]
     ELSE IF p2.outcome # "matched" THEN [ok |-> FALSE, pos |-> p2.pos]
     ELSE [ok |-> p3.outcome = "matched", pos |-> p3.pos]

RECURSIVE ExpectedRun(_)
ExpectedRun(p) ==
  IF p >= Len(file) THEN [ok |-> FALSE, pos |-> p]
  ELSE LET a == ExpectedCycle(p)
       IN IF a.ok THEN a ELSE ExpectedRun(a.pos)

(* C1: is_ringing() returns true exactly when one attempt matched ring, gap
   and ring in that order, and it has then read no block beyond the one that
   completed the second ring.  Stated for the files of at most five blocks
   and the configuration whose deadlines are reached at once. *)
C1_TrueIffCycleMatched ==
  (Finished("is_ringing") /\ FreshCall /\ ShortFile /\ cfg = UnitConfig)
    => /\ (result = "True") <=> ExpectedRun(0).ok
       /\ ExpectedRun(0).ok => num_blocks_read = ExpectedRun(0).pos

(* a file on which no attempt succeeds: no block reaches the band, or the
   expected run finds no cycle *)
NoCycle ==
  \/ \A i \in 1..Len(file) : file[i] < cfg.min_ringing_confidence
  \/ ShortFile /\ cfg = UnitConfig /\ ~ExpectedRun(0).ok

(* C2: on a finite source on which no attempt succeeds is_ringing() returns
   false, having read every block of the source exactly once. *)
C2_FalseAfterWholeSource ==
  (Finished("is_ringing") /\ FreshCall /\ kind = "File" /\ NoCycle)
    => /\ result = "False"
       /\ num_blocks_read = Len(file)
       /\ stream.pos <= Len(file)

(* C3: the source is not rewound: when the first attempt fails before the
   end of the file, the next attempt's first phase goes on with the block
   after the last one the failed attempt read, so the run reads beyond the
   failed attempt, and no block is read twice. *)
C3_RetryContinuesForward ==
  (Finished("is_ringing") /\ FreshCall /\ ShortFile /\ cfg = UnitConfig
     /\ ~ExpectedCycle(0).ok /\ ExpectedCycle(0).pos < Len(file))
    => /\ num_blocks_read > ExpectedCycle(0).pos
       /\ num_blocks_read <= Len(file)

(* the first value the phase pulls satisfies its band condition *)
FirstSampleMatches(fn) ==
  /\ kind = "File" /\ call.pos < Len(file)
  /\ Matches(fn, dq_append(Repeat(Seed(fn), Window(fn)), Window(fn),
                           file[call.pos + 1]), Window(fn))

PhaseFns == {"_detect_single_ring", "_detect_single_gap"}

(* C4: a phase whose deadline is already reached on the sample on which the
   mean satisfies the band condition returns Matched (True), not TimedOut. *)
C4_MatchBeforeTimeout ==
  \A fn \in PhaseFns :
    (Finished(fn) /\ OpenCall /\ ~call.depleted /\ call.multiple = 0
       /\ Window(fn) > 0 /\ FirstSampleMatches(fn))
      => result = "True"

(* C5: a phase that pulls from an exhausted source returns StreamEnded (False,
   logged as stream ended) at once, also when its deadline has passed, and
   reads no block. *)
C5_ExhaustedPullEndsStream ==
  \A fn \in PhaseFns :
    (Finished(fn) /\ OpenCall /\ call.depleted)
      => /\ result = "False"
         /\ phase.outcome = "stream ended"
         /\ num_blocks_read = call.blocks

(* C6: the first phase (a ring without deadline) on a file whose mean never
   enters the band never times out: it returns StreamEnded after reading all
   the blocks that were left. *)
C6_FirstPhaseEndsWithStream ==
  (Finished("_detect_single_ring") /\ OpenCall /\ ~call.depleted
     /\ call.multiple = None /\ kind = "File" /\ Window("_detect_single_ring") > 0
     /\ \A i \in 1..Len(file) : file[i] < cfg.min_ringing_confidence)
    => /\ result = "False"
       /\ phase.outcome = "stream ended"
       /\ num_blocks_read - call.blocks = Len(file) - call.pos

(* C7: a phase with a deadline times out only at or after its deadline, the
   start time plus the budget, and it does so on the first sample checked
   from then on that does not match: with a budget of 0 on the first sample,
   when that sample does not match. *)
C7_TimedOutAtDeadline ==
  \A fn \in PhaseFns :
    /\ (call.fn = fn /\ phase.outcome = "timed out")
         => (phase.max_wait_time # None /\ now >= phase.max_wait_time)
    /\ (Finished(fn) /\ OpenCall /\ ~call.depleted /\ call.multiple = 0
          /\ kind = "File" /\ call.pos < Len(file) /\ Window(fn) > 0
          /\ ~FirstSampleMatches(fn))
         => /\ result = "False"
            /\ phase.outcome = "timed out"
            /\ num_blocks_read = call.blocks + 1

(* C8: with the default parameters 155 blocks at 0.60, 155 at 0.10 and 155 at
   0.60 make is_ringing() return true. *)
C8_EndToEndCycle ==
  (Finished("is_ringing") /\ FreshCall /\ kind = "File"
     /\ file = EndToEndFile /\ cfg = DefaultConfig)
    => result = "True"

(* C9: a ring, a gap that times out, then ring, gap, ring: is_ringing()
   returns true, on the blocks after the failed attempt. *)
C9_TrueAfterFailedGap ==
  (Finished("is_ringing") /\ FreshCall /\ kind = "File"
     /\ file = NonRewindFile /\ cfg = UnitConfig)
    => /\ result = "True"
       /\ num_blocks_read = Len(NonRewindFile)

(* C10: when is_ringing() ends, by return or by an error, the stream and the
   pitch it opened are closed again. *)
C10_ResourcesReleased ==
  (Finished("is_ringing") /\ ~call.stream_open /\ ~call.pitch_open)
    => (~stream.open /\ aubio_pitch = "None")

----------------------------------------------------------------------------
(* a step that is the call of fn from outside the detector *)
Called(fn) ==
  /\ pc = "idle" /\ pc' = "idle"
  /\ call'.fn = fn
  /\ (call' # call \/ result' # result)

(* C11: the stream and the pitch are Closed or Open.  open() on an open one
   and close() on a closed one raise AssertionError and change nothing (the
   source keeps its position, _data is kept); an open() that succeeds leaves
   it open and a close() that succeeds leaves it closed.  The same holds
   for the open() of the two with statements of is_ringing. *)
C11_TwoStateLifecycle ==
  [][/\ Called("Stream.open") =>
          IF stream.open
            THEN result' = "AssertionError"
                 /\ UNCHANGED <<stream, data, num_blocks_read, last_read_size>>
            ELSE result' = "None" /\ stream'.open
     /\ Called("Stream.close") =>
          IF ~stream.open
            THEN result' = "AssertionError"
                 /\ UNCHANGED <<stream, data, num_blocks_read, last_read_size>>
            ELSE result' = "None" /\ ~stream'.open
     /\ Called("Pitch.open") =>
          IF aubio_pitch # "None"
            THEN result' = "AssertionError" /\ UNCHANGED aubio_pitch
            ELSE result' = "None" /\ aubio_pitch' # "None"
     /\ Called("Pitch.close") =>
          IF aubio_pitch = "None"
            THEN result' = "AssertionError" /\ UNCHANGED aubio_pitch
            ELSE result' = "None" /\ aubio_pitch' = "None"
     /\ (pc = "with_stream" /\ pc' # pc) =>
          IF stream.open
            THEN result' = "AssertionError" /\ UNCHANGED <<stream, data>>
            ELSE stream'.open
     /\ (pc = "with_pitch" /\ pc' # pc) =>
          IF aubio_pitch # "None"
            THEN exc' = "AssertionError" /\ UNCHANGED aubio_pitch
            ELSE aubio_pitch' # "None"
    ]_vars

(* an open() refused on a stream that is open and has delivered a block *)
C11_Witness ==
  /\ Finished("Stream.open") /\ result = "AssertionError"
  /\ call.stream_open /\ stream.open /\ stream.pos > 0

(* C12: no detector runs a phase with a window of size 0: the constructor
   refuses a configuration whose window size comes out as 0. *)
C12_NoZeroWindow ==
  pc = "for" => (phase.num >= 1 /\ Len(phase.dq) >= 1)

(* C13: every detector that runs a phase has
   min_ringing_confidence <= max_ringing_confidence: the constructor refuses
   the other ones. *)
C13_BandOrdered ==
  pc = "for" => cfg.min_ringing_confidence <= cfg.max_ringing_confidence

(* C14: the window of a phase holds the values pushed last, filled up with
   the seed: after a phase with a budget of 0 on a file that has a block
   left, which pushes that block and no other, the window is the seed window
   with that block appended. *)
C14_WindowHoldsPushes ==
  \A fn \in PhaseFns :
    (Finished(fn) /\ OpenCall /\ ~call.depleted /\ call.multiple = 0
       /\ kind = "File" /\ call.pos < Len(file) /\ Window(fn) > 0)
      => /\ Len(phase.dq) = Window(fn)
         /\ phase.dq = dq_append(Repeat(Seed(fn), Window(fn)), Window(fn),
                                 file[call.pos + 1])

(* C15: Pitch.fetch_confidence is memoized by num_blocks_read. The dict never
   holds more than one entry and changes in one way only: a call that finds
   no entry for num_blocks_read asks the analyzer once and replaces the dict
   by that one entry. A call that finds the entry returns it and asks
   nothing, so the calls made while num_blocks_read stays the same return
   the value of the first of them, whatever the analyzer holds by then. *)
C15_MemoizedPerBlock ==
  [][/\ Cardinality(DOMAIN cached_confidence') <= 1
     /\ cached_confidence' # cached_confidence
          => /\ Called("Pitch.fetch_confidence")
             /\ num_blocks_read \notin DOMAIN cached_confidence
     /\ (Called("Pitch.fetch_confidence")
           /\ num_blocks_read \in DOMAIN cached_confidence)
          => /\ result' = "confidence"
             /\ call'.value = cached_confidence[num_blocks_read]
             /\ call'.queries = 0
             /\ UNCHANGED cached_confidence
     /\ (Called("Pitch.fetch_confidence")
           /\ num_blocks_read \notin DOMAIN cached_confidence
           /\ aubio_pitch # "None")
          => /\ result' = "confidence"
             /\ call'.value = confidence
             /\ call'.queries = 1
             /\ cached_confidence' = (num_blocks_read :> confidence)
    ]_vars

(* a second block has been read and its confidence fetched; the analyzer
   was then replaced, and the call returned the cached value and not the
   one of the new analyzer *)
C15_Witness ==
  /\ Finished("Pitch.fetch_confidence") /\ result = "confidence"
  /\ num_blocks_read = 2
  /\ call.queries = 0
  /\ call.value = cached_confidence[num_blocks_read]
  /\ aubio_pitch # "None"
  /\ call.value # confidence

(* C16, as the specification states it: the window size of a phase is the
   product of its seconds and the confidences per second rounded to the
   nearest, 155 with the defaults. *)
C16_RoundedWindow ==
  pc = "for"
    => /\ phase.num = (cfg.pitch_confidences_per_second * Seconds(phase.fn) + 5)
                        \div 10
       /\ (cfg = DefaultConfig => phase.num = 155)

(* C16, amended: the window size of a phase is that product truncated to an
   integer, the largest n with n <= seconds * rate, and the window holds as
   many values: 154 with the defaults. *)
C16_TruncatedWindow ==
  pc = "for"
    => /\ phase.num * 10 <= cfg.pitch_confidences_per_second * Seconds(phase.fn)
       /\ cfg.pitch_confidences_per_second * Seconds(phase.fn)
            < (phase.num + 1) * 10
       /\ Len(phase.dq) = phase.num
       /\ (cfg = DefaultConfig => phase.num = 154)

(* a gap phase of the default detector before its first pull *)
C16_Witness ==
  /\ pc = "for" /\ cfg = DefaultConfig /\ phase.fn = "_detect_single_gap"
  /\ phase.num = 154 /\ Len(phase.dq) = 154

(* C17: the third phase of an attempt is a ring phase with the window of
   ringing_seconds and the deadline of max_wait_subsequent_ring_multiple: on
   a file whose run finds a cycle, the phase is_ringing() ran last is that
   one. *)
C17_PhaseParameters ==
  (Finished("is_ringing") /\ FreshCall /\ ShortFile /\ cfg = UnitConfig
     /\ ExpectedRun(0).ok)
    => /\ phase.fn = "_detect_single_ring"
       /\ phase.max_wait_seconds_multiple = cfg.max_wait_subsequent_ring_multiple
       /\ phase.max_wait_time # None
       /\ phase.num = Window("_detect_single_ring")

(* C18: every phase starts with a window of its own, N copies of its own
   seed, and with a deadline of its own, counted from its own start:
   nothing of an earlier phase is in either. *)
C18_FreshWindowAndDeadline ==
  [][(pc = "phase" /\ pc' = "for")
       => /\ phase'.num = Window(phase'.fn)
          /\ phase'.dq = Repeat(Seed(phase'.fn), Window(phase'.fn))
          /\ phase'.max_wait_time =
               IF phase'.max_wait_seconds_multiple = None THEN None
               ELSE now' + Seconds(phase'.fn) * phase'.max_wait_seconds_multiple
    ]_vars

(* a gap phase started after the first moment, on a stream that has
   delivered blocks: its window holds the seed of the gap and its deadline is
   counted from now *)
C18_Witness ==
  /\ pc = "for" /\ phase.fn = "_detect_single_gap"
  /\ now > 1 /\ num_blocks_read > 0
  /\ phase.max_wait_seconds_multiple = 2
  /\ phase.max_wait_time = now + 2 * cfg.gap_seconds
  /\ phase.num > 1
  /\ phase.dq = Repeat(average_ring_confidence, phase.num)

(* C19: the phases of an attempt run in order: on a file whose first ring
   phase matches before the end of the file, the gap phase runs next and
   consumes at least one block more, and is_ringing() comes to an answer. *)
C19_GapFollowsRing ==
  (Finished("is_ringing") /\ FreshCall /\ ShortFile /\ cfg = UnitConfig
     /\ ExpectedPhase("_detect_single_ring", None, 0).outcome = "matched"
     /\ ExpectedPhase("_detect_single_ring", None, 0).pos < Len(file))
    => /\ result \in {"True", "False"}
       /\ num_blocks_read > ExpectedPhase("_detect_single_ring", None, 0).pos

(* C20: a phase with a timeout multiple of 0 has a deadline; on a source
   that is not exhausted it reads exactly one block and returns True when the
   mean then satisfies its condition and False, timed out, otherwise. *)
C20_ZeroBudgetOneSample ==
  \A fn \in PhaseFns :
    (Finished(fn) /\ OpenCall /\ ~call.depleted /\ call.multiple = 0
       /\ kind = "File" /\ call.pos < Len(file) /\ Window(fn) > 0)
      => /\ phase.max_wait_time # None
         /\ num_blocks_read = call.blocks + 1
         /\ IF FirstSampleMatches(fn)
              THEN result = "True" /\ phase.outcome = "matched"
              ELSE result = "False" /\ phase.outcome = "timed out"

(* a configuration the specification calls valid *)
ValidConfig ==
  /\ Window("_detect_single_ring") >= 1
  /\ Window("_detect_single_gap") >= 1
  /\ cfg.min_ringing_confidence <= cfg.max_ringing_confidence

(* C21: is_ringing() of a valid configuration on a file comes to an answer,
   and it has then pulled at least one block, the one its first loop
   iteration consumes, and no more blocks than the file has. *)
C21_EachIterationConsumes ==
  (Finished("is_ringing") /\ FreshCall /\ kind = "File" /\ ValidConfig)
    => /\ result \in {"True", "False"}
       /\ num_blocks_read >= 1
       /\ num_blocks_read <= Len(file)

(* C22: every block read during is_ringing() is pushed into the window of
   one phase: on a file whose run finds a cycle, with windows of one value,
   the blocks read are those up to the end of the cycle and the window of
   the last phase holds the last of them. *)
C22_BlocksArePushes ==
  (Finished("is_ringing") /\ FreshCall /\ ShortFile /\ cfg = UnitConfig
     /\ ExpectedRun(0).ok)
    => /\ num_blocks_read = ExpectedRun(0).pos
       /\ phase.num = 1
       /\ phase.dq = <<file[ExpectedRun(0).pos]>>

(* C23: exhaustion of a file stream is sticky: once is_depleted is true, it
   is true after every step. *)
C23_DepletionSticky ==
  [][(kind = "File" /\ is_depleted) => is_depleted']_vars

(* C24: on a source that never ends a phase with a deadline returns Matched
   or TimedOut: a phase method called with a multiple on an open microphone
   ends with True or False, logged as matched or timed out. *)
C24_DeadlinePhaseReturns ==
  \A fn \in PhaseFns :
    (Finished(fn) /\ OpenCall /\ kind = "Microphone" /\ call.multiple # None
       /\ ValidConfig)
      => /\ result \in {"True", "False"}
         /\ phase.outcome \in {"matched", "timed out"}

(* C25: a closed stream has no block, and num_blocks_read changes in one way
   only: a read() that returns a block adds one to it. Nothing lowers it or
   sets it back, close() and open() included. *)
C25_BlockCount ==
  [][/\ ~stream'.open => data' = None
     /\ num_blocks_read' # num_blocks_read
          => /\ num_blocks_read' = num_blocks_read + 1
             /\ stream.open
             /\ Called("Stream.read") \/ pc = "for"
     /\ (Called("Stream.read") /\ result' = "block")
          => num_blocks_read' = num_blocks_read + 1
     /\ (Called("Stream.close") \/ Called("Stream.open"))
          => num_blocks_read' = num_blocks_read
    ]_vars

(* a stream that was read, closed and opened again: the source is at its
   start, there is no block, and the count is what it was *)
C25_Witness ==
  /\ Finished("Stream.open") /\ result = "None"
  /\ ~call.stream_open /\ stream.open /\ stream.pos = 0
  /\ data = None
  /\ num_blocks_read = 2

====
